---- MODULE Spec2Model ----
(***************************************************************************)
(* Canonical raster grid and rasterization of goshawk_habitat.rast.raster. *)
(*                                                                         *)
(* World coordinates and the pixel size are integers in one fixed unit     *)
(* (the source holds them as floats).  Every geometry is given by what the *)
(* library calls report about it: whether it is null, is_empty, its        *)
(* geom_type, whether buffer(0) empties it, and its bounding box in the    *)
(* target CRS after to_crs.                                                *)
(***************************************************************************)
EXTENDS Integers, Sequences, FiniteSets, TLC

VARIABLES grid, call, disk, pc, handles

vars == <<grid, call, disk, pc, handles>>

\* the two scripts: where each is, and the handles it holds open
scripts == <<pc, handles>>

----------------------------------------------------------------------------
(* Bounds of the model *)

MaxCoord == 2

MaxPixel == 2

MaxPad == 1

MaxAoiFeatures == 1

----------------------------------------------------------------------------
(* Small helpers *)

Abs(n) == IF n < 0 THEN -n ELSE n

\* Optional[int]: <<>> is None, <<v>> is the value v.
None == <<>>

Some(v) == <<v>>

----------------------------------------------------------------------------
(* GridConfig, GridExtent *)

DefaultNodata == 0

DefaultBlockSize == 256

DefaultPredictor == 2

GridConfig(out_crs, pixel_size, all_touched, nodata, dtype) ==
    [out_crs |-> out_crs, pixel_size |-> pixel_size, all_touched |-> all_touched,
     nodata |-> nodata, dtype |-> dtype, compress |-> "DEFLATE", tiled |-> TRUE,
     blockxsize |-> DefaultBlockSize, blockysize |-> DefaultBlockSize,
     predictor |-> Some(DefaultPredictor)]

GridExtent(xmin, ymin, xmax, ymax) ==
    [xmin |-> xmin, ymin |-> ymin, xmax |-> xmax, ymax |-> ymax]

\* _ensure_crs: a CRS object is returned as it is, anything else is parsed.
\* A CRS value is [kind, code]: kind "CRS" for a CRS object, "str" for user
\* input such as "EPSG:3005"; code is the EPSG code.
EnsureCrs(crs) ==
    IF crs.kind = "CRS" THEN crs ELSE [kind |-> "CRS", code |-> crs.code]

----------------------------------------------------------------------------
(* math.floor, math.ceil and round of the quotient n / d, d > 0 *)

FloorDiv(n, d) == n \div d

CeilDiv(n, d) == -((-n) \div d)

\* Python's round(): to the nearest integer, a tie to the even one.
RoundDiv(n, d) ==
    LET q == n \div d
        r == n % d
    IN  IF 2 * r < d THEN q
        ELSE IF 2 * r > d THEN q + 1
        ELSE IF q % 2 = 0 THEN q ELSE q + 1

----------------------------------------------------------------------------
(* _snap_bounds *)

\* _snap_bounds with the maximums floored like the minimums
SnapBoundsFloorMax(bounds, pixel_size) ==
    GridExtent(FloorDiv(bounds[1], pixel_size) * pixel_size,
               FloorDiv(bounds[2], pixel_size) * pixel_size,
               FloorDiv(bounds[3], pixel_size) * pixel_size,
               FloorDiv(bounds[4], pixel_size) * pixel_size)

SnapBounds(bounds, pixel_size) ==
    LET minx == FloorDiv(bounds[1], pixel_size) * pixel_size
        miny == FloorDiv(bounds[2], pixel_size) * pixel_size
        maxx == CeilDiv(bounds[3], pixel_size) * pixel_size
        maxy == CeilDiv(bounds[4], pixel_size) * pixel_size
    IN  GridExtent(minx, miny, maxx, maxy)

----------------------------------------------------------------------------
(* _clean_polygons *)

\* A geometry: null (None), or is_empty, or of some geom_type; area0 says
\* that buffer(0) returns an empty geometry for it; box is its bounding box
\* <<minx, miny, maxx, maxy>> in the target CRS.
PolygonTypes == {"Polygon", "MultiPolygon"}

NotNull(f) == ~f.null

NotEmpty(f) == ~f.empty

IsPolygonal(f) == f.type \in PolygonTypes

\* geometry.buffer(0): a zero-area polygon comes back empty
Buffer0(f) == IF f.area0 THEN [f EXCEPT !.empty = TRUE] ELSE f

MapSeq(s, Op(_)) == [i \in 1..Len(s) |-> Op(s[i])]

NoFeaturesError == "ValueError: No Polygon/MultiPolygon geometries found after filtering."

AllEmptyError == "ValueError: All geometries became empty/invalid after repair."

\* _clean_polygons without the check after the repair
CleanPolygonsNoRecheck(gdf) ==
    LET g3 == SelectSeq(SelectSeq(SelectSeq(gdf, NotNull), NotEmpty), IsPolygonal)
        g5 == SelectSeq(MapSeq(g3, Buffer0), LAMBDA f : NotNull(f) /\ NotEmpty(f))
    IN  IF g3 = <<>> THEN [err |-> NoFeaturesError, gdf |-> <<>>, arg |-> gdf]
        ELSE [err |-> "", gdf |-> g5, arg |-> gdf]

\* The result is [err, gdf, arg]: err = "" and the new collection, or the
\* error raised and no collection; arg is the caller's collection as the call
\* leaves it.  Every step selects into a new frame and copies it, and the
\* repaired geometry column is assigned to the copy of line 75.
CleanPolygons(gdf) ==
    LET g1 == SelectSeq(gdf, NotNull)
        g2 == SelectSeq(g1, NotEmpty)
        g3 == SelectSeq(g2, IsPolygonal)
        g4 == MapSeq(g3, Buffer0)
        g5 == SelectSeq(g4, LAMBDA f : NotNull(f) /\ NotEmpty(f))
    IN  IF g3 = <<>> THEN [err |-> NoFeaturesError, gdf |-> <<>>, arg |-> gdf]
        ELSE IF g5 = <<>> THEN [err |-> AllEmptyError, gdf |-> <<>>, arg |-> gdf]
        ELSE [err |-> "", gdf |-> g5, arg |-> gdf]

----------------------------------------------------------------------------
(* RasterGrid.__init__ *)

NoGrid == [made |-> FALSE]

InvalidGridError == "ValueError: Invalid grid dimensions"

\* from_origin(west, north, xsize, ysize): the affine (a, b, c, d, e, f)
FromOrigin(west, north, xsize, ysize) ==
    [a |-> xsize, b |-> 0, c |-> west, d |-> 0, e |-> -ysize, f |-> north]

\* the width truncated instead of rounded
GridWidthTruncated(extent, pixel_size) == FloorDiv(extent.xmax - extent.xmin, pixel_size)

GridWidth(extent, pixel_size) == RoundDiv(extent.xmax - extent.xmin, pixel_size)

GridHeight(extent, pixel_size) == RoundDiv(extent.ymax - extent.ymin, pixel_size)

\* __init__ rejecting only negative dimensions
RasterGridInitAllowsZero(config, extent) ==
    LET pixel_size == config.pixel_size
        width == GridWidth(extent, pixel_size)
        height == GridHeight(extent, pixel_size)
    IN  IF width < 0 \/ height < 0
        THEN [err |-> InvalidGridError, grid |-> NoGrid]
        ELSE [err |-> "",
              grid |-> [made |-> TRUE, config |-> config, crs |-> EnsureCrs(config.out_crs),
                        pixel_size |-> pixel_size, extent |-> extent,
                        width |-> width, height |-> height,
                        transform |-> FromOrigin(extent.xmin, extent.ymax,
                                                 pixel_size, pixel_size)]]

\* The result is [err, grid]: the constructed object, or the error raised.
RasterGridInit(config, extent) ==
    LET pixel_size == config.pixel_size
        width == GridWidth(extent, pixel_size)
        height == GridHeight(extent, pixel_size)
    IN  IF width <= 0 \/ height <= 0
        THEN [err |-> InvalidGridError, grid |-> NoGrid]
        ELSE [err |-> "",
              grid |-> [made |-> TRUE, config |-> config, crs |-> EnsureCrs(config.out_crs),
                        pixel_size |-> pixel_size, extent |-> extent,
                        width |-> width, height |-> height,
                        transform |-> FromOrigin(extent.xmin, extent.ymax,
                                                 pixel_size, pixel_size)]]

----------------------------------------------------------------------------
(* RasterGrid.from_geojson_aoi *)

\* the padding applied to the maximums only
PadExtentMaxOnly(extent, pad_pixels, pixel_size) ==
    IF pad_pixels > 0
    THEN LET pad == pad_pixels * pixel_size
         IN  GridExtent(extent.xmin, extent.ymin, extent.xmax + pad, extent.ymax + pad)
    ELSE extent

PadExtent(extent, pad_pixels, pixel_size) ==
    IF pad_pixels > 0
    THEN LET pad == pad_pixels * pixel_size
         IN  GridExtent(extent.xmin - pad, extent.ymin - pad,
                        extent.xmax + pad, extent.ymax + pad)
    ELSE extent

FileNotFoundError == "FileNotFoundError: AOI GeoJSON not found"

Idle == [op |-> "idle", err |-> ""]

\* aoi: [exists, feats, total_bounds]: whether the file exists, its features
\* as read, and the total bounds of the cleaned collection after to_crs.
FromGeojsonAoiResult(aoi, config, pad_pixels) ==
    IF ~aoi.exists THEN [err |-> FileNotFoundError, grid |-> NoGrid, snapped |-> None]
    ELSE LET cleaned == CleanPolygons(aoi.feats)
         IN  IF cleaned.err # "" THEN [err |-> cleaned.err, grid |-> NoGrid, snapped |-> None]
             ELSE LET snapped == SnapBounds(aoi.total_bounds, config.pixel_size)
                      extent == PadExtent(snapped, pad_pixels, config.pixel_size)
                      made == RasterGridInit(config, extent)
                  IN  [err |-> made.err, grid |-> made.grid, snapped |-> Some(snapped)]

----------------------------------------------------------------------------
(* RasterGrid.profile *)

Profile(g) ==
    [driver |-> "GTiff", height |-> g.height, width |-> g.width, count |-> 1,
     dtype |-> g.config.dtype, crs |-> g.crs, transform |-> g.transform,
     nodata |-> g.config.nodata, compress |-> g.config.compress,
     tiled |-> g.config.tiled, blockxsize |-> g.config.blockxsize,
     blockysize |-> g.config.blockysize, predictor |-> g.config.predictor]

----------------------------------------------------------------------------
(* rasterio.features.rasterize *)

\* Rows and columns are counted from 1: pixel (r, c) is row r - 1 and column
\* c - 1 of the array.  Its footprint under the transform t:
PixelLeft(t, c) == t.c + (c - 1) * t.a

PixelTop(t, r) == t.f + (r - 1) * t.e

\* The polygon of a feature is its box.  Without all_touched a pixel is
\* covered when its centre lies strictly inside the box; with all_touched
\* when the box overlaps the footprint of the pixel.  Doubled coordinates
\* keep the centre an integer.
CoversCentre(box, t, r, c) ==
    LET cx2 == 2 * PixelLeft(t, c) + t.a
        cy2 == 2 * PixelTop(t, r) + t.e
    IN  /\ 2 * box[1] < cx2 /\ cx2 < 2 * box[3]
        /\ 2 * box[2] < cy2 /\ cy2 < 2 * box[4]

CoversTouched(box, t, r, c) ==
    LET left == PixelLeft(t, c)
        top == PixelTop(t, r)
    IN  /\ box[1] < left + t.a /\ left < box[3]
        /\ box[2] < top /\ top + t.e < box[4]

Covers(box, t, r, c, all_touched) ==
    IF all_touched THEN CoversTouched(box, t, r, c) ELSE CoversCentre(box, t, r, c)

\* One shape <<box, value>> burned over the array
Burn(arr, shape, t, all_touched) ==
    [r \in DOMAIN arr |->
        [c \in DOMAIN arr[r] |->
            IF Covers(shape[1], t, r, c, all_touched) THEN shape[2] ELSE arr[r][c]]]

RECURSIVE BurnAll(_, _, _, _)
BurnAll(arr, shapes, t, all_touched) ==
    IF shapes = <<>> THEN arr
    ELSE BurnAll(Burn(arr, Head(shapes), t, all_touched), Tail(shapes), t, all_touched)

\* rasterize(shapes, out_shape, fill, transform, all_touched, dtype): the
\* array starts as fill and the shapes are burned in the order given, a
\* later one over an earlier one.
Rasterize(shapes, out_shape, fill, t, all_touched, dtype) ==
    [dtype |-> dtype,
     data |-> BurnAll([r \in 1..out_shape[1] |-> [c \in 1..out_shape[2] |-> fill]],
                      shapes, t, all_touched)]

----------------------------------------------------------------------------
(* RasterGrid.rasterize_geojson_binary *)

\* out_shape=(self.height, self.width), transposed
OutShapeTransposed(g) == <<g.width, g.height>>

OutShape(g) == <<g.height, g.width>>

\* the shapes generator: the geometries that are neither None nor empty
Burnable(f) == NotNull(f) /\ NotEmpty(f)

BinaryShapes(gdf, burn_value) ==
    MapSeq(SelectSeq(gdf, Burnable), LAMBDA f : <<f.box, burn_value>>)

DefaultBurnValue == 1

\* rasterio.open(out_tif_path, "w", **profile) and dst.write(arr, 1)
WrittenFile(profile, arr) == [profile |-> profile, band1 |-> arr]

NoFile == [profile |-> <<>>, band1 |-> <<>>]

OutPaths == {"out_dir", "out_tif"}

RaisedAfterMkdir(e, g, paths) ==
    [err |-> e, arr |-> <<>>, written |-> NoFile, disk |-> paths \cup {"out_dir"},
     self |-> g]

\* An exception raised while reading, cleaning or classifying leaves the
\* method before the mkdir and the open: nothing is written, self is as it was.
Raised(e, g, paths) ==
    [err |-> e, arr |-> <<>>, written |-> NoFile, disk |-> paths, self |-> g]

\* the background filled with 0 whatever config.nodata is
RasterizeGeojsonBinaryZeroFill(g, gdf, burn_value, paths) ==
    LET cleaned == CleanPolygons(gdf)
    IN  IF cleaned.err # ""
        THEN Raised(cleaned.err, g, paths)
        ELSE LET arr == Rasterize(BinaryShapes(cleaned.gdf, burn_value), OutShape(g),
                                  0, g.transform, g.config.all_touched,
                                  g.config.dtype)
             IN  [err |-> "", arr |-> arr, written |-> WrittenFile(Profile(g), arr),
                  disk |-> paths \cup OutPaths, self |-> g]

\* The result is [err, arr, written, disk]: the error raised if any, the
\* array, the file written and the paths that exist afterwards.
RasterizeGeojsonBinary(g, gdf, burn_value, paths) ==
    LET cleaned == CleanPolygons(gdf)
    IN  IF cleaned.err # ""
        THEN Raised(cleaned.err, g, paths)
        ELSE LET arr == Rasterize(BinaryShapes(cleaned.gdf, burn_value), OutShape(g),
                                  g.config.nodata, g.transform, g.config.all_touched,
                                  g.config.dtype)
             IN  [err |-> "", arr |-> arr, written |-> WrittenFile(Profile(g), arr),
                  disk |-> paths \cup OutPaths, self |-> g]

----------------------------------------------------------------------------
(* RasterGrid.rasterize_geojson_age_classes *)

\* An age attribute as read: a number, the blank string "", None, or some
\* other text.
NumAge(v) == [kind |-> "num", v |-> v]

BlankAge == [kind |-> "blank", v |-> 0]

NoneAge == [kind |-> "none", v |-> 0]

TextAge == [kind |-> "text", v |-> 0]

\* .replace("", np.nan) and .astype(float): a float is [nan, v]
NaN == [nan |-> TRUE, v |-> 0]

Float(v) == [nan |-> FALSE, v |-> v]

CoercibleAge(age) == age.kind # "text"

CoerceAge(age) == IF age.kind = "num" THEN Float(age.v) ELSE NaN

AgeCoercionError == "ValueError: could not convert string to float"

\* comparisons of a float column with a threshold: false for NaN
Ge(x, t) == ~x.nan /\ x.v >= t

Lt(x, t) == ~x.nan /\ x.v < t

DefaultMinFunctional == 40

DefaultMinHighQuality == 80

DefaultNotForage == 0

DefaultFunctional == 2

DefaultHighQuality == 1

\* codes: <<not_forage_value, functional_value, high_quality_value>>
\* thresholds: <<min_functional, min_high_quality>>

\* the class column with the lower bound of each class excluded
ForageClsExclusive(age, codes, thresholds) ==
    LET x == CoerceAge(age)
        c0 == codes[1]
        c1 == IF Ge(x, thresholds[1] + 1) /\ Lt(x, thresholds[2]) THEN codes[2] ELSE c0
    IN  IF Ge(x, thresholds[2] + 1) THEN codes[3] ELSE c1

\* The class column: the default, then the two .loc assignments in order.
ForageCls(age, codes, thresholds) ==
    LET x == CoerceAge(age)
        c0 == codes[1]
        c1 == IF Ge(x, thresholds[1]) /\ Lt(x, thresholds[2]) THEN codes[2] ELSE c0
    IN  IF Ge(x, thresholds[2]) THEN codes[3] ELSE c1

\* sort_values(cls_col, ascending=True): an insertion of each row after the
\* rows whose class code is not greater
RECURSIVE InsertByCls(_, _)
InsertByCls(row, sorted) ==
    IF sorted = <<>> THEN <<row>>
    ELSE IF Head(sorted).cls <= row.cls THEN <<Head(sorted)>> \o InsertByCls(row, Tail(sorted))
    ELSE <<row>> \o sorted

RECURSIVE SortedFrom(_, _)
SortedFrom(rows, sorted) ==
    IF rows = <<>> THEN sorted
    ELSE SortedFrom(Tail(rows), InsertByCls(Head(rows), sorted))

\* the rows left in the order of the input
SortValuesUnsorted(rows) == rows

SortValues(rows) == SortedFrom(rows, <<>>)

\* Lines 275-283 on a frame: the age column coerced and the class column
\* built.  A row of the result is the feature and its class; the result is
\* [err, rows].
WithCls(gdf, codes, thresholds) ==
    IF \E i \in DOMAIN gdf : ~CoercibleAge(gdf[i].age)
    THEN [err |-> AgeCoercionError, rows |-> <<>>]
    ELSE [err |-> "",
          rows |-> MapSeq(gdf, LAMBDA f : [feat |-> f,
                                           cls |-> ForageCls(f.age, codes, thresholds)])]

ClassShapes(rows) ==
    MapSeq(SelectSeq(rows, LAMBDA row : Burnable(row.feat)),
           LAMBDA row : <<row.feat.box, row.cls>>)

OrElse(opt, default) == IF opt # None THEN opt[1] ELSE default

OverriddenProfileInConfig(g, out_dtype, out_nodata) ==
    LET self == [g EXCEPT !.config.dtype = out_dtype, !.config.nodata = out_nodata]
    IN  [profile |-> Profile(self), self |-> self]

\* profile = self.profile() is a fresh dict; the overrides are written to it,
\* never to self.config.
OverriddenProfile(g, out_dtype, out_nodata) ==
    [profile |-> [Profile(g) EXCEPT !.dtype = out_dtype, !.nodata = out_nodata],
     self |-> g]

\* The result is [err, rows, arr, written, disk, self]; rows is the frame with its
\* class column, sorted, as it is when the shapes are burned.
RasterizeGeojsonAgeClasses(g, gdf, nodata, dtype, codes, thresholds, paths) ==
    LET cleaned == CleanPolygons(gdf)
        classed == WithCls(cleaned.gdf, codes, thresholds)
        failed(e) == LET x == Raised(e, g, paths)
                     IN  [err |-> x.err, rows |-> <<>>, arr |-> x.arr,
                          written |-> x.written, disk |-> x.disk, self |-> x.self]
    IN  IF cleaned.err # "" THEN failed(cleaned.err)
        ELSE IF classed.err # "" THEN failed(classed.err)
        ELSE LET rows == SortValues(classed.rows)
                 out_dtype == OrElse(dtype, g.config.dtype)
                 out_nodata == OrElse(nodata, g.config.nodata)
                 arr == Rasterize(ClassShapes(rows), OutShape(g), out_nodata,
                                  g.transform, g.config.all_touched, out_dtype)
                 over == OverriddenProfile(g, out_dtype, out_nodata)
             IN  [err |-> "", rows |-> rows, arr |-> arr,
                  written |-> WrittenFile(over.profile, arr),
                  disk |-> paths \cup OutPaths, self |-> over.self]

----------------------------------------------------------------------------
(* The scripts scripts/main.py and scripts/rasters.py: their external resources *)

\* A handle is [kind, k]: the database connection, the cursor of the k-th
\* query, the k-th source raster, the output raster.
Handle(kind, k) == [kind |-> kind, k |-> k]

At(at, k) == [at |-> at, k |-> k]

ScriptsNotStarted ==
    /\ pc = [main |-> At("start", 0), mosaic |-> At("start", 0)]
    /\ handles = [main |-> {}, mosaic |-> {}]

----------------------------------------------------------------------------
(* Inputs of the grid construction *)

Coords == -MaxCoord..MaxCoord

PixelSizes == 1..MaxPixel

EPSG3005 == 3005

OutCrs == [kind |-> "str", code |-> EPSG3005]

GridConfigs ==
    {GridConfig(OutCrs, p, FALSE, DefaultNodata, "uint8") : p \in PixelSizes}

\* Bounding boxes with minx <= maxx and miny <= maxy
Boxes ==
    {b \in Coords \X Coords \X Coords \X Coords : b[1] <= b[3] /\ b[2] <= b[4]}

\* Any four coordinates, inverted ones included
Extents ==
    {GridExtent(b[1], b[2], b[3], b[4]) : b \in Coords \X Coords \X Coords \X Coords}

Geom(null, empty, type, area0) ==
    [null |-> null, empty |-> empty, type |-> type, area0 |-> area0]

AoiGeoms ==
    {Geom(TRUE, FALSE, "None", FALSE), Geom(FALSE, TRUE, "Polygon", FALSE),
     Geom(FALSE, FALSE, "Point", FALSE), Geom(FALSE, FALSE, "Polygon", TRUE),
     Geom(FALSE, FALSE, "Polygon", FALSE), Geom(FALSE, FALSE, "MultiPolygon", FALSE)}

SeqsUpTo(S, n) == UNION {[1..k -> S] : k \in 0..n}

AoiFiles ==
    {[exists |-> TRUE, feats |-> fs, total_bounds |-> b] :
        fs \in SeqsUpTo(AoiGeoms, MaxAoiFeatures), b \in Boxes}
    \cup {[exists |-> FALSE, feats |-> <<>>, total_bounds |-> <<0, 0, 0, 0>>]}

----------------------------------------------------------------------------
(* Grid construction: the specification SpecGrid *)

InitGrid == grid = NoGrid /\ call = Idle /\ disk = {} /\ ScriptsNotStarted

\* RasterGrid.from_geojson_aoi(aoi_geojson_path, config, pad_pixels=pad)
FromGeojsonAoi ==
    /\ call.op = "idle"
    /\ \E aoi \in AoiFiles, config \in GridConfigs, pad \in 0..MaxPad :
          LET r == FromGeojsonAoiResult(aoi, config, pad)
          IN  /\ grid' = r.grid
              /\ call' = [op |-> "from_geojson_aoi", err |-> r.err, aoi |-> aoi,
                          config |-> config, pad_pixels |-> pad, snapped |-> r.snapped]
              /\ UNCHANGED <<disk, scripts>>

\* RasterGrid(config, extent)
NewRasterGrid ==
    /\ call.op = "idle"
    /\ \E config \in GridConfigs, extent \in Extents :
          LET r == RasterGridInit(config, extent)
          IN  /\ grid' = r.grid
              /\ call' = [op |-> "RasterGrid", err |-> r.err, config |-> config,
                          extent |-> extent]
              /\ UNCHANGED <<disk, scripts>>

NextGrid == FromGeojsonAoi \/ NewRasterGrid

SpecGrid == InitGrid /\ [][NextGrid]_vars

----------------------------------------------------------------------------
(* Inputs of the rasterization *)

MaxFeatures == 2

\* the number of source rasters the mosaic script opens (10 in the script)
MaxSources == 3

RasterExtent == GridExtent(0, 0, 6, 3)

\* The default GridConfig (centre rule, nodata 0) and the one of scripts/main.py
\* with all_touched set (nodata 255), each at two pixel sizes
RasterConfigs ==
    {GridConfig(OutCrs, p, FALSE, DefaultNodata, "uint8") : p \in {1, 3}}
    \cup {GridConfig(OutCrs, p, TRUE, 255, "uint8") : p \in {1, 3}}

RasterGrids == {RasterGridInit(config, RasterExtent).grid : config \in RasterConfigs}

\* Two boxes inside the extent that overlap: the left half and one across
\* the middle
RasterBoxes == {<<0, 0, 3, 3>>, <<2, 1, 5, 3>>}

Ages == {BlankAge, NumAge(30), NumAge(50), NumAge(90)}

Feature(geom, box, age) ==
    [null |-> geom.null, empty |-> geom.empty, type |-> geom.type, area0 |-> geom.area0,
     box |-> box, age |-> age]

PlainPolygon == Geom(FALSE, FALSE, "Polygon", FALSE)

Features ==
    {Feature(PlainPolygon, b, a) : b \in RasterBoxes, a \in Ages}
    \cup {Feature(Geom(TRUE, FALSE, "None", FALSE), <<0, 0, 0, 0>>, BlankAge),
          Feature(Geom(FALSE, FALSE, "Point", FALSE), <<1, 1, 1, 1>>, NumAge(90)),
          Feature(Geom(FALSE, FALSE, "Polygon", TRUE), <<0, 0, 3, 3>>, NumAge(90)),
          Feature(PlainPolygon, <<0, 0, 3, 3>>, TextAge)}

FeatureCollections == SeqsUpTo(Features, MaxFeatures)

DefaultCodes == <<DefaultNotForage, DefaultFunctional, DefaultHighQuality>>

DefaultThresholds == <<DefaultMinFunctional, DefaultMinHighQuality>>

CodeChoices == {DefaultCodes, <<1, 2, 3>>, <<3, 2, 1>>}

----------------------------------------------------------------------------
(* Rasterization on a constructed grid: the specification SpecRaster *)

InitRaster == grid \in RasterGrids /\ call = Idle /\ disk = {} /\ ScriptsNotStarted

\* grid.rasterize_geojson_binary(geojson_path, out_tif_path, burn_value=...)
RasterizeBinaryCall ==
    /\ call.op = "idle"
    /\ \E gdf \in FeatureCollections, burn_value \in {DefaultBurnValue, 2} :
          LET r == RasterizeGeojsonBinary(grid, gdf, burn_value, disk)
          IN  /\ call' = [op |-> "rasterize_geojson_binary", err |-> r.err, gdf |-> gdf,
                          burn_value |-> burn_value, written |-> r.written]
              /\ disk' = r.disk
              /\ grid' = r.self
              /\ UNCHANGED scripts

\* grid.rasterize_geojson_age_classes(geojson_path, out_tif_path, nodata=...,
\* dtype=..., not_forage_value=..., functional_value=..., high_quality_value=...)
RasterizeAgeClassesCall ==
    /\ call.op = "idle"
    /\ \E gdf \in FeatureCollections, nodata \in {None, Some(255)},
          dtype \in {None, Some("int16")}, codes \in CodeChoices :
          LET r == RasterizeGeojsonAgeClasses(grid, gdf, nodata, dtype, codes,
                                              DefaultThresholds, disk)
          IN  /\ call' = [op |-> "rasterize_geojson_age_classes", err |-> r.err,
                          gdf |-> gdf, nodata |-> nodata, dtype |-> dtype,
                          codes |-> codes, thresholds |-> DefaultThresholds,
                          rows |-> r.rows, written |-> r.written]
              /\ disk' = r.disk
              /\ grid' = r.self
              /\ UNCHANGED scripts

\* grid.profile()
ProfileCall ==
    /\ call.op = "idle"
    /\ call' = [op |-> "profile", err |-> "", profile |-> Profile(grid)]
    /\ UNCHANGED <<grid, disk, scripts>>

\* the call returns (or its exception propagates) to the caller
Return ==
    /\ call.op # "idle"
    /\ call' = Idle
    /\ UNCHANGED <<grid, disk, scripts>>

NextRaster == RasterizeBinaryCall \/ RasterizeAgeClassesCall \/ ProfileCall \/ Return

SpecRaster == InitRaster /\ [][NextRaster]_vars

----------------------------------------------------------------------------
(* The class column alone: the specification SpecClassify *)

ClassifyAges ==
    {BlankAge, NoneAge}
    \cup {NumAge(v) : v \in {0, 29, 30, 39, 40, 41, 79, 80, 81, 89, 90, 91}}

ClassifyFrames ==
    SeqsUpTo({Feature(PlainPolygon, <<0, 0, 3, 3>>, a) : a \in ClassifyAges}, MaxFeatures)

\* <<min_functional, min_high_quality>> with min_functional <= min_high_quality
ThresholdChoices == {DefaultThresholds, <<30, 90>>, <<80, 80>>}

InitClassify ==
    /\ grid = NoGrid /\ disk = {} /\ ScriptsNotStarted
    /\ call \in {[op |-> "read", err |-> "", gdf |-> gdf, codes |-> codes,
                  thresholds |-> thresholds] :
                    gdf \in ClassifyFrames, codes \in CodeChoices,
                    thresholds \in ThresholdChoices}

\* lines 275-283 of rasterize_geojson_age_classes on the frame read
BuildClassColumn ==
    /\ call.op = "read"
    /\ LET r == WithCls(call.gdf, call.codes, call.thresholds)
       IN  call' = [op |-> "forage_cls", err |-> r.err, gdf |-> call.gdf,
                    codes |-> call.codes, thresholds |-> call.thresholds,
                    rows |-> r.rows]
    /\ UNCHANGED <<grid, disk, scripts>>

NextClassify == BuildClassColumn

SpecClassify == InitClassify /\ [][NextClassify]_vars

----------------------------------------------------------------------------
(* The geometry sanitizer alone: the specification SpecClean *)

CleanGeoms ==
    AoiGeoms
    \cup {Geom(FALSE, FALSE, "LineString", FALSE), Geom(FALSE, TRUE, "MultiPolygon", FALSE),
          Geom(FALSE, FALSE, "MultiPolygon", TRUE), Geom(FALSE, TRUE, "Point", FALSE)}

InitClean ==
    /\ grid = NoGrid /\ disk = {} /\ ScriptsNotStarted
    /\ call \in {[op |-> "read", err |-> "", gdf |-> gdf] :
                    gdf \in SeqsUpTo(CleanGeoms, MaxFeatures)}

\* _clean_polygons(gdf) on the collection read; gdf stays the caller's
\* collection, ret is what the call returns
CleanPolygonsCall ==
    /\ call.op = "read"
    /\ LET r == CleanPolygons(call.gdf)
       IN  call' = [op |-> "_clean_polygons", err |-> r.err, arg |-> call.gdf,
                    gdf |-> r.arg, ret |-> r.gdf]
    /\ UNCHANGED <<grid, disk, scripts>>

NextClean == CleanPolygonsCall

SpecClean == InitClean /\ [][NextClean]_vars

----------------------------------------------------------------------------
(* Claims about the grid construction, checked under SpecGrid *)

Snapped == call.snapped[1]

SnappedCall == call.op = "from_geojson_aoi" /\ call.snapped # None

IsMultiple(x, p) == x % p = 0

\* C2: for any AOI bounding box and pixel size p > 0 the snapped extent
\* contains the box, each of its edges is an integer multiple of p, and it
\* is the floor of the minimums and the ceiling of the maximums (no edge is
\* a whole pixel or more away from the box).
C2_SnapContainsAndAligned ==
    SnappedCall =>
        LET b == call.aoi.total_bounds
            p == call.config.pixel_size
            e == Snapped
        IN  /\ e.xmin <= b[1] /\ e.ymin <= b[2] /\ e.xmax >= b[3] /\ e.ymax >= b[4]
            /\ IsMultiple(e.xmin, p) /\ IsMultiple(e.ymin, p)
            /\ IsMultiple(e.xmax, p) /\ IsMultiple(e.ymax, p)
            /\ b[1] - e.xmin < p /\ b[2] - e.ymin < p
            /\ e.xmax - b[3] < p /\ e.ymax - b[4] < p

\* a negative minimum off the pixel grid and a maximum already on it
C2_Witness ==
    /\ SnappedCall
    /\ call.config.pixel_size = 2
    /\ call.aoi.total_bounds[1] = -1
    /\ call.aoi.total_bounds[3] = 2
    /\ Snapped.xmin = -2 /\ Snapped.xmax = 2

\* n is q rounded to the nearest integer, where q = span / p
IsRounded(n, span, p) ==
    /\ 2 * Abs(n * p - span) <= p
    /\ (2 * Abs(n * p - span) = p => n % 2 = 0)

\* the rounded quotient span / p is <= 0
RoundsToNonPositive(span, p) == 2 * span <= p

\* C6: every constructed grid has width = round((xmax - xmin) / pixel_size)
\* > 0, height = round((ymax - ymin) / pixel_size) > 0 and a transform whose
\* origin is (xmin, ymax); construction from an extent for which either
\* rounded dimension is <= 0 fails with the invalid-grid error and yields no
\* grid.
C6_GridDimensions ==
    /\ grid.made =>
          /\ grid.width > 0 /\ grid.height > 0
          /\ IsRounded(grid.width, grid.extent.xmax - grid.extent.xmin, grid.pixel_size)
          /\ IsRounded(grid.height, grid.extent.ymax - grid.extent.ymin, grid.pixel_size)
          /\ grid.transform.c = grid.extent.xmin /\ grid.transform.f = grid.extent.ymax
          /\ grid.transform.a = grid.pixel_size /\ grid.transform.e = -grid.pixel_size
    /\ call.op = "RasterGrid" =>
          LET e == call.extent
              p == call.config.pixel_size
          IN  IF RoundsToNonPositive(e.xmax - e.xmin, p) \/ RoundsToNonPositive(e.ymax - e.ymin, p)
              THEN call.err = InvalidGridError /\ ~grid.made
              ELSE call.err = "" /\ grid.made /\ grid.extent = e /\ grid.config = call.config

\* an inverted extent is refused
C6_Witness ==
    /\ call.op = "RasterGrid"
    /\ call.extent.xmax < call.extent.xmin
    /\ call.extent.ymax > call.extent.ymin
    /\ call.err = InvalidGridError
    /\ ~grid.made

ZeroAfterSnapping ==
    SnappedCall /\ (Snapped.xmax = Snapped.xmin \/ Snapped.ymax = Snapped.ymin)

\* C7 as stated: an AOI whose bounds have zero width or zero height after
\* snapping makes the construction fail with the invalid-grid error for
\* every padding value, and no grid is returned.
C7_ZeroExtentAlwaysFails ==
    ZeroAfterSnapping => call.err = InvalidGridError /\ ~grid.made

\* C7 amended: such an AOI makes the construction fail with the invalid-grid
\* error when pad_pixels = 0; with pad_pixels = n > 0 the padding is applied
\* before the dimensions are checked and a grid is returned whose collapsed
\* dimension is 2n pixels.
C7_ZeroExtentFailsUnpadded ==
    ZeroAfterSnapping =>
        IF call.pad_pixels = 0
        THEN call.err = InvalidGridError /\ ~grid.made
        ELSE /\ call.err = "" /\ grid.made
             /\ (Snapped.xmax = Snapped.xmin => grid.width = 2 * call.pad_pixels)
             /\ (Snapped.ymax = Snapped.ymin => grid.height = 2 * call.pad_pixels)

C7_Witness ==
    /\ ZeroAfterSnapping
    /\ call.pad_pixels = 0
    /\ call.err = InvalidGridError
    /\ ~grid.made

\* C9: with padding n > 0 the extent of the grid is the snapped extent moved
\* outward by n * pixel_size on each of the four sides, every edge is still
\* a multiple of pixel_size and width and height are those of the snapped
\* extent plus 2n; with padding 0 the extent is the snapped extent.
C9_PaddingExpandsExtent ==
    (SnappedCall /\ grid.made) =>
        LET n == call.pad_pixels
            p == call.config.pixel_size
            e == Snapped
        IN  /\ grid.extent.xmin = e.xmin - n * p /\ grid.extent.ymin = e.ymin - n * p
            /\ grid.extent.xmax = e.xmax + n * p /\ grid.extent.ymax = e.ymax + n * p
            /\ IsMultiple(grid.extent.xmin, p) /\ IsMultiple(grid.extent.ymin, p)
            /\ IsMultiple(grid.extent.xmax, p) /\ IsMultiple(grid.extent.ymax, p)
            /\ grid.width * p = (e.xmax - e.xmin) + 2 * n * p
            /\ grid.height * p = (e.ymax - e.ymin) + 2 * n * p

C9_Witness ==
    /\ SnappedCall /\ grid.made
    /\ call.pad_pixels > 0
    /\ call.config.pixel_size > 1
    /\ Snapped.xmax > Snapped.xmin /\ Snapped.ymax > Snapped.ymin
    /\ grid.extent.xmin < Snapped.xmin

----------------------------------------------------------------------------
(* Claims about the sanitizer, checked under SpecClean *)

PassesFilter(f) == ~f.null /\ ~f.empty /\ f.type \in {"Polygon", "MultiPolygon"}

\* C10: the sanitizer either returns a non-empty collection in which every
\* geometry is a non-null, non-empty Polygon or MultiPolygon, or fails with
\* the empty-input error: when filtering leaves no feature, and when the
\* zero-buffer repair empties every remaining geometry.  It never returns an
\* empty collection and the caller's collection is as it was.
C10_CleanReturnsPolygonsOrFails ==
    call.op = "_clean_polygons" =>
        LET kept == {i \in DOMAIN call.arg : PassesFilter(call.arg[i])}
        IN  /\ call.gdf = call.arg
            /\ IF kept = {}
               THEN call.err = NoFeaturesError /\ call.ret = <<>>
               ELSE IF \A i \in kept : call.arg[i].area0
               THEN call.err = AllEmptyError /\ call.ret = <<>>
               ELSE /\ call.err = ""
                    /\ call.ret # <<>>
                    /\ Len(call.ret) = Cardinality({i \in kept : ~call.arg[i].area0})
                    /\ \A j \in DOMAIN call.ret : PassesFilter(call.ret[j])

\* the repair empties the only polygon that passed the filter
C10_Witness ==
    /\ call.op = "_clean_polygons"
    /\ Len(call.arg) = 2
    /\ call.arg[1].type = "Point"
    /\ PassesFilter(call.arg[2]) /\ call.arg[2].area0
    /\ call.err = AllEmptyError

----------------------------------------------------------------------------
(* Claims about the class column, checked under SpecClassify *)

\* C5: the class of a feature is a function of its age alone: below
\* min_functional the not_forage code, from min_functional up to but not
\* including min_high_quality the functional code, from min_high_quality up
\* the high_quality code; a blank or missing age gives the not_forage code;
\* every feature gets exactly one class.  (min_functional <= min_high_quality.)
C5_ClassFromAge ==
    (call.op = "forage_cls" /\ call.err = "") =>
        /\ Len(call.rows) = Len(call.gdf)
        /\ \A i \in DOMAIN call.gdf :
              LET age == call.gdf[i].age
                  cls == call.rows[i].cls
                  min_functional == call.thresholds[1]
                  min_high_quality == call.thresholds[2]
              IN  /\ call.rows[i].feat = call.gdf[i]
                  /\ age.kind \in {"blank", "none"} => cls = call.codes[1]
                  /\ (age.kind = "num" /\ age.v < min_functional) => cls = call.codes[1]
                  /\ (age.kind = "num" /\ min_functional <= age.v /\ age.v < min_high_quality)
                        => cls = call.codes[2]
                  /\ (age.kind = "num" /\ age.v >= min_high_quality) => cls = call.codes[3]

\* ages 40 and 80 under the default thresholds and codes
C5_Witness ==
    /\ call.op = "forage_cls" /\ call.err = ""
    /\ call.thresholds = DefaultThresholds /\ call.codes = DefaultCodes
    /\ Len(call.gdf) = 2
    /\ call.gdf[1].age = NumAge(40) /\ call.rows[1].cls = DefaultFunctional
    /\ call.gdf[2].age = NumAge(80) /\ call.rows[2].cls = DefaultHighQuality

----------------------------------------------------------------------------
(* Claims about the rasterization, checked under SpecRaster *)

Rasterized == call.op \in {"rasterize_geojson_binary", "rasterize_geojson_age_classes"}

BinaryDone == call.op = "rasterize_geojson_binary" /\ call.err = ""

ClassesDone == call.op = "rasterize_geojson_age_classes" /\ call.err = ""

Data == call.written.band1.data

Rows == 1..grid.height

Cols == 1..grid.width

\* the features of the input that are burned: those the sanitizer keeps
Survives(f) == PassesFilter(f) /\ ~f.area0

\* the features of the call's input that cover pixel (r, c)
Covering(r, c) ==
    {i \in DOMAIN call.gdf :
        /\ Survives(call.gdf[i])
        /\ Covers(call.gdf[i].box, grid.transform, r, c, grid.config.all_touched)}

\* the quality rank of an age: 1 not_forage, 2 functional, 3 high_quality
QualityRank(age, thresholds) ==
    IF age.kind = "num" /\ age.v >= thresholds[2] THEN 3
    ELSE IF age.kind = "num" /\ age.v >= thresholds[1] THEN 2
    ELSE 1

RankOf(i) == QualityRank(call.gdf[i].age, call.thresholds)

\* C1 as stated: for every pixel covered by polygons of different classes
\* the output is the class code of the highest-quality covering polygon
\* (high_quality over functional over not_forage), whatever the codes are.
C1_HighestQualityWins ==
    ClassesDone =>
        \A r \in Rows, c \in Cols :
            LET cov == Covering(r, c)
            IN  (\E i, j \in cov : RankOf(i) # RankOf(j)) =>
                    \E i \in cov : /\ \A j \in cov : RankOf(j) <= RankOf(i)
                                   /\ Data[r][c] = call.codes[RankOf(i)]

TwoPolygons(age1, age2) ==
    /\ Len(call.gdf) = 2
    /\ Survives(call.gdf[1]) /\ Survives(call.gdf[2])
    /\ call.gdf[1].age = age1 /\ call.gdf[2].age = age2

\* C3: two overlapping polygons with ages 30 and 90 under the default
\* thresholds and codes: every pixel of the overlap holds the high-quality
\* code and not the not-forage code, in either order of the two polygons, and
\* the array is the one the other order gives.
C3_Overlap30And90 ==
    (/\ ClassesDone
     /\ call.codes = DefaultCodes /\ call.thresholds = DefaultThresholds
     /\ TwoPolygons(NumAge(30), NumAge(90)) \/ TwoPolygons(NumAge(90), NumAge(30))) =>
        /\ \A r \in Rows, c \in Cols :
              Covering(r, c) = {1, 2} =>
                  Data[r][c] = DefaultHighQuality /\ Data[r][c] # DefaultNotForage
        /\ Data = RasterizeGeojsonAgeClasses(grid, <<call.gdf[2], call.gdf[1]>>, call.nodata,
                                             call.dtype, call.codes, call.thresholds,
                                             {}).arr.data

\* the older polygon first in the input, the younger one after it
C3_Witness ==
    /\ ClassesDone
    /\ call.codes = DefaultCodes
    /\ TwoPolygons(NumAge(90), NumAge(30))
    /\ \E r \in Rows, c \in Cols :
          Covering(r, c) = {1, 2} /\ Data[r][c] = DefaultHighQuality
    /\ \E r \in Rows, c \in Cols :
          Covering(r, c) = {2} /\ Data[r][c] = DefaultNotForage

\* C4: every raster produced by either rasterizer on a grid has the shape
\* (grid.height, grid.width) and is written with the transform and the CRS
\* of the grid, whatever the features are and also when the age-class call
\* overrides nodata or dtype; pixel (r, c) is at the same place in all of them.
C4_ShapeAndTransformOfGrid ==
    (Rasterized /\ call.err = "") =>
        /\ DOMAIN Data = Rows
        /\ \A r \in Rows : DOMAIN Data[r] = Cols
        /\ call.written.profile.height = grid.height
        /\ call.written.profile.width = grid.width
        /\ call.written.profile.transform = grid.transform
        /\ call.written.profile.crs = grid.crs
        /\ \A r \in Rows, c \in Cols :
              /\ PixelLeft(call.written.profile.transform, c)
                    = grid.extent.xmin + (c - 1) * grid.pixel_size
              /\ PixelTop(call.written.profile.transform, r)
                    = grid.extent.ymax - (r - 1) * grid.pixel_size

\* an age-class raster with nodata and dtype overridden, on a grid wider than high
C4_Witness ==
    /\ ClassesDone
    /\ call.nodata # None /\ call.dtype # None
    /\ grid.width = 6 /\ grid.height = 3
    /\ call.written.profile.dtype = "int16"
    /\ Len(Data) = 3 /\ Len(Data[1]) = 6

\* C8: in the array of the binary rasterizer every cell covered by at least
\* one polygon under the all_touched rule of the grid holds the burn value
\* and every other cell holds the nodata value of the grid; overlapping
\* polygons make no difference.
C8_BinaryBurnOrNodata ==
    BinaryDone =>
        \A r \in Rows, c \in Cols :
            Data[r][c] = IF Covering(r, c) # {} THEN call.burn_value
                         ELSE grid.config.nodata

\* two overlapping polygons on a grid whose nodata is not 0
C8_Witness ==
    /\ BinaryDone
    /\ grid.config.nodata # 0
    /\ \E r \in Rows, c \in Cols : Covering(r, c) = {1, 2} /\ Data[r][c] = call.burn_value
    /\ \E r \in Rows, c \in Cols : Covering(r, c) = {1} /\ Data[r][c] = call.burn_value
    /\ \E r \in Rows, c \in Cols : Covering(r, c) = {} /\ Data[r][c] = grid.config.nodata

----------------------------------------------------------------------------
(* The external resources of the scripts: the specification SpecScripts *)

\* the queries of main(), each on a cursor of its own: the version query
\* under oracle_cursor, get_db_info, run_sql of TSA.sql
Queries == <<"v$version", "get_db_info", "TSA.sql">>

\* the rasters main() writes: nesting (binary) and foraging (age classes)
Layers == <<"nesting", "foraging">>

\* rasters = [raster_1, ...]
Sources == 1..MaxSources

Exit == At("exit", 0)

InitScripts == grid = NoGrid /\ call = Idle /\ disk = {} /\ ScriptsNotStarted

\* conn = bcgw.connect()
MainConnect ==
    /\ pc.main.at = "start"
    /\ \E ok \in BOOLEAN :
          IF ok
          THEN /\ handles' = [handles EXCEPT !.main = @ \cup {Handle("conn", 0)}]
               /\ pc' = [pc EXCEPT !.main = At("cursor", 1)]
          ELSE /\ pc' = [pc EXCEPT !.main = Exit]
               /\ UNCHANGED handles
    /\ UNCHANGED <<grid, call, disk>>

\* cursor = connection.cursor(), on entering the with block of a query
MainOpenCursor ==
    /\ pc.main.at = "cursor"
    /\ \E ok \in BOOLEAN :
          IF ok
          THEN /\ handles' = [handles EXCEPT
                                 !.main = @ \cup {Handle("cursor", pc.main.k)}]
               /\ pc' = [pc EXCEPT !.main = At("query", pc.main.k)]
          ELSE /\ pc' = [pc EXCEPT !.main = Exit]
               /\ UNCHANGED handles
    /\ UNCHANGED <<grid, call, disk>>

\* cur.execute(...) and the fetch; the with block closes the cursor whether
\* they return or raise
MainQuery ==
    /\ pc.main.at = "query"
    /\ handles' = [handles EXCEPT !.main = @ \ {Handle("cursor", pc.main.k)}]
    /\ \E ok \in BOOLEAN :
          pc' = [pc EXCEPT !.main = IF ~ok THEN Exit
                                    ELSE IF pc.main.k < Len(Queries)
                                         THEN At("cursor", pc.main.k + 1)
                                         ELSE At("raster", 1)]
    /\ UNCHANGED <<grid, call, disk>>

\* a rasterize call of main() up to rasterio.open(out_tif_path, "w", **profile)
MainOpenRaster ==
    /\ pc.main.at = "raster"
    /\ \E ok \in BOOLEAN :
          IF ok
          THEN /\ handles' = [handles EXCEPT !.main = @ \cup {Handle("dst", pc.main.k)}]
               /\ pc' = [pc EXCEPT !.main = At("write", pc.main.k)]
          ELSE /\ pc' = [pc EXCEPT !.main = Exit]
               /\ UNCHANGED handles
    /\ UNCHANGED <<grid, call, disk>>

\* dst.write(arr, 1); the with block closes the file whether it returns or
\* raises. After the last layer main() returns.
MainWriteRaster ==
    /\ pc.main.at = "write"
    /\ handles' = [handles EXCEPT !.main = @ \ {Handle("dst", pc.main.k)}]
    /\ \E ok \in BOOLEAN :
          pc' = [pc EXCEPT !.main = IF ok /\ pc.main.k < Len(Layers)
                                    THEN At("raster", pc.main.k + 1)
                                    ELSE Exit]
    /\ UNCHANGED <<grid, call, disk>>

\* the mosaic script starts on its list of paths
MosaicStart ==
    /\ pc.mosaic.at = "start"
    /\ pc' = [pc EXCEPT !.mosaic = At("open", 1)]
    /\ UNCHANGED <<grid, call, disk, handles>>

\* srcs = [rasterio.open(p) for p in rasters], one path at a time; the
\* comprehension is not inside the try, an exception leaves the script
MosaicOpenSource ==
    /\ pc.mosaic.at = "open"
    /\ \E ok \in BOOLEAN :
          IF ok
          THEN /\ handles' = [handles EXCEPT
                                 !.mosaic = @ \cup {Handle("src", pc.mosaic.k)}]
               /\ pc' = [pc EXCEPT !.mosaic = IF pc.mosaic.k + 1 \in Sources
                                              THEN At("open", pc.mosaic.k + 1)
                                              ELSE At("merge", 0)]
          ELSE /\ pc' = [pc EXCEPT !.mosaic = Exit]
               /\ UNCHANGED handles
    /\ UNCHANGED <<grid, call, disk>>

\* mosaic, transform = merge(srcs), inside the try
MosaicMerge ==
    /\ pc.mosaic.at = "merge"
    /\ \E ok \in BOOLEAN :
          pc' = [pc EXCEPT !.mosaic = IF ok THEN At("open_dst", 0) ELSE At("finally", 1)]
    /\ UNCHANGED <<grid, call, disk, handles>>

\* rasterio.open(out_tif, "w", **meta)
MosaicOpenOut ==
    /\ pc.mosaic.at = "open_dst"
    /\ \E ok \in BOOLEAN :
          IF ok
          THEN /\ handles' = [handles EXCEPT !.mosaic = @ \cup {Handle("dst", 0)}]
               /\ pc' = [pc EXCEPT !.mosaic = At("write", 0)]
          ELSE /\ pc' = [pc EXCEPT !.mosaic = At("finally", 1)]
               /\ UNCHANGED handles
    /\ UNCHANGED <<grid, call, disk>>

\* dst.write(mosaic); the with block closes dst. In "finally" k is 1 when an
\* exception is on its way out.
MosaicWrite ==
    /\ pc.mosaic.at = "write"
    /\ handles' = [handles EXCEPT !.mosaic = @ \ {Handle("dst", 0)}]
    /\ \E ok \in BOOLEAN :
          pc' = [pc EXCEPT !.mosaic = At("finally", IF ok THEN 0 ELSE 1)]
    /\ UNCHANGED <<grid, call, disk>>

\* finally: for s in srcs: s.close()
MosaicFinally ==
    /\ pc.mosaic.at = "finally"
    /\ handles' = [handles EXCEPT !.mosaic = @ \ {Handle("src", k) : k \in Sources}]
    /\ pc' = [pc EXCEPT !.mosaic = Exit]
    /\ UNCHANGED <<grid, call, disk>>

NextScripts ==
    \/ MainConnect \/ MainOpenCursor \/ MainQuery \/ MainOpenRaster \/ MainWriteRaster
    \/ MosaicStart \/ MosaicOpenSource \/ MosaicMerge \/ MosaicOpenOut \/ MosaicWrite
    \/ MosaicFinally

SpecScripts == InitScripts /\ [][NextScripts]_vars

\* C12: when a script has exited, by returning or by an exception, it holds
\* no handle: the database connection, every cursor, every source raster
\* and every output raster it acquired has been released.
C12_ReleasedOnEveryExit ==
    \A p \in {"main", "mosaic"} : pc[p].at = "exit" => handles[p] = {}

\* C11: no call of rasterize_geojson_binary, rasterize_geojson_age_classes or
\* profile, succeeding or failing, with or without nodata and dtype
\* overrides, changes the grid: its config, extent, pixel size, width,
\* height, CRS and transform after the call are those before it.
C11_GridNeverMutated == [][grid' = grid]_vars

\* an age-class raster written with both overrides while the grid's own
\* config still holds its nodata and dtype
C11_Witness ==
    /\ ClassesDone
    /\ call.nodata # None /\ call.dtype # None
    /\ call.written.profile.nodata # grid.config.nodata
    /\ call.written.profile.dtype # grid.config.dtype
    /\ grid \in RasterGrids

\* C13: a rasterization call that fails does so with one of the sanitizer's
\* errors or the age coercion error, leaves the set of existing paths as it
\* was and writes no file; the next step is the return of the exception,
\* never another attempt. The output directory and file come into existence
\* only with a call that computed its array.
C13_FailureBeforeOutput ==
    [][/\ (call.op = "idle" /\ call'.op \in {"rasterize_geojson_binary",
                                             "rasterize_geojson_age_classes"}) =>
             IF call'.err # ""
             THEN /\ call'.err \in {NoFeaturesError, AllEmptyError, AgeCoercionError}
                  /\ disk' = disk
                  /\ call'.written = NoFile
             ELSE /\ disk' = disk \cup OutPaths
                  /\ call'.written # NoFile
                  /\ call'.written.band1.data # <<>>
        /\ (Rasterized /\ call.err # "") => (call' = Idle /\ disk' = disk)]_vars

\* an age coercion failure as the first call: nothing exists on disk
C13_Witness ==
    /\ call.op = "rasterize_geojson_age_classes"
    /\ call.err = AgeCoercionError
    /\ call.written = NoFile
    /\ disk = {}

\* the three class codes of the call
ClassCodes == {call.codes[i] : i \in 1..3}

\* C14: in the output of the class rasterizer a cell holds the effective
\* nodata value exactly when no polygon covers it; a covered cell holds one
\* of the three class codes, and that code is not the nodata value.
C14_NodataIffUncovered ==
    ClassesDone =>
        \A r \in Rows, c \in Cols :
            /\ (Data[r][c] = call.written.profile.nodata) <=> (Covering(r, c) = {})
            /\ Covering(r, c) # {} =>
                  /\ Data[r][c] \in ClassCodes
                  /\ Data[r][c] # call.written.profile.nodata

====
